---- MODULE Spec2Model ----
(***************************************************************************)
(* LoopInThread (src/bitcoin_safe_lib/async_tools/loop_in_thread.py):      *)
(* an asyncio event loop in a daemon thread, with key-based strategies for *)
(* tasks scheduled from caller threads, callback delivery to the Qt main   *)
(* thread, and stop().                                                     *)
(*                                                                         *)
(* Threads: the caller threads, and the worker thread "w" that runs the    *)
(* loop.  A handle is a concurrent.futures.Future (PENDING, RUNNING,       *)
(* CANCELLED, FINISHED; CANCELLED_AND_NOTIFIED is folded into CANCELLED,   *)
(* done() and cancelled() do not tell them apart).  The loop is its FIFO   *)
(* ready queue; every call_soon / call_soon_threadsafe is one item.        *)
(* A section that runs under the global lock only (_get_bucket, the pops   *)
(* in cleanup) does not block inside and is one step; the per-key locks    *)
(* are state (lockHolder), because run_background calls out while it       *)
(* holds one.                                                              *)
(***************************************************************************)
EXTENDS Integers, Sequences, FiniteSets, TLC

MaxCalls == 3
MaxCancels == 1
MaxSuspend == 1
MaxTaskCalls == 2

Callers == {"a", "b"}
Worker == "w"
Threads == Callers \cup {Worker}
Keys == {"k", "j"}
NoKey == "None"
Handles == 1..MaxCalls
Buckets == 1..MaxCalls
Strategies == {"QUEUE", "REJECT_NEW_TASK", "CANCEL_OLD_TASK", "RUN_INDEPENDENT"}

VARIABLES
    loopSet,      \* self._loop is not None
    threadSet,    \* self._thread is not None
    loopState,    \* the loop object: "new", "running", "stopped", "closed"
    stopping,     \* loop._stopping, set by loop.stop()
    ntodo,        \* once loop.stop() ran: items left in that iteration of the loop
    ready,        \* the loop's ready queue
    wpc,          \* the worker thread: "starting", "loop", "publishing", "exited"
    wh,           \* the handle the worker is publishing
    tasks,        \* self._tasks: the handles with a cancel callback, in insertion order
    key_tasks,    \* self._key_tasks: key -> bucket object (0: no entry)
    locks,        \* self._locks: key -> lock object (0: no entry)
    bucket,       \* the bucket (list) objects
    lockHolder,   \* the per-key Lock objects: the thread that holds each, or "none"
    nb,           \* bucket/lock pairs created so far
    nh,           \* handles created so far
    ncalls,       \* scheduling calls made so far
    ncancels,     \* cancel_task calls made so far by callers
    stopCalled,   \* stop() has been called
    hnd,          \* per handle: how it was created
    fstate,       \* per handle: the concurrent Future's state
    fres,         \* per handle: its result or exception
    fcbs,         \* per handle: its done callbacks, in registration order
    tstate,       \* per handle: its asyncio Task: "none", "sched", "waitp", "susp", "done"
    tres,         \* per handle: the Task's outcome
    tcancel,      \* per handle: CancelledError is thrown into the Task at its next step
    tbody,        \* per handle: steps of the user's coroutine executed so far
    wfut,         \* per handle: the wrap_future(parent) the QUEUE wrapper awaits
    g,            \* stop()'s _graceful coroutine and its Future
    pc,           \* per caller thread: its position
    loc,          \* per caller thread: its locals
    cbq,          \* per thread: done callbacks it is running inline
    mainq,        \* what _invoke_main has emitted to the main thread, in order
    ran,          \* the callbacks executed so far, in order, each with the thread that ran it
    returned,     \* handles whose scheduling call has returned
    creq,         \* handles for which a cancellation was requested
    early,        \* handles for which cancel_task was called while they were not done
    raised,       \* caller threads whose call raised
    rfres,        \* per caller thread: what its last run_foreground returned or raised
    par,          \* per caller thread: its run_parallel call and the gather of gather_all
    starts        \* the calls of _start after construction: made, raised, loops created

vars == <<loopSet, threadSet, loopState, stopping, ntodo, ready, wpc, wh, tasks,
          key_tasks, locks, bucket, lockHolder, nb, nh, ncalls, ncancels,
          stopCalled, hnd, fstate, fres, fcbs, tstate, tres, tcancel, tbody,
          wfut, g, pc, loc, cbq, mainq, ran, returned, creq, early, raised, rfres, par, starts>>

loopVars == <<loopSet, threadSet, loopState, stopping, ntodo, ready, wpc, wh, g>>
mapVars == <<key_tasks, locks, bucket, lockHolder, nb>>
futVars == <<fstate, fres, fcbs>>
taskVars == <<tstate, tres, tcancel, tbody, wfut>>
countVars == <<ncalls, ncancels, stopCalled>>

----------------------------------------------------------------------------
(* Values *)

NoRes == [r |-> "none", o |-> 0]
Res(kind, origin) == [r |-> kind, o |-> origin]
NoHnd == [api |-> "none", key |-> NoKey, strat |-> "RUN_INDEPENDENT", kind |-> "none",
          co |-> "none", parent |-> 0, b |-> 0, l |-> 0, cb |-> FALSE, prior |-> {},
          kids |-> <<>>]
NoPar == [st |-> "none", key |-> NoKey, strat |-> "RUN_INDEPENDENT", todo |-> <<>>,
          subs |-> <<>>, comp |-> 0, fin |-> <<>>, outer |-> NoRes]
NoLoc == [op |-> "none", api |-> "none", key |-> NoKey, strat |-> "RUN_INDEPENDENT",
          co |-> "none", cb |-> FALSE, b |-> 0, l |-> 0, h |-> 0, old |-> <<>>, ct |-> 0, prior |-> {}]
Item(kind, h) == [k |-> kind, h |-> h]
Emit(kind, h, arg) == [k |-> kind, h |-> h, arg |-> arg]

Last(s) == s[Len(s)]
Remove(s, x) == SelectSeq(s, LAMBDA y : y /= x)
Range(s) == {s[i] : i \in 1..Len(s)}
Perms(S) == {p \in [1..Cardinality(S) -> S] : \A i, j \in 1..Cardinality(S) : p[i] = p[j] => i = j}

\* concurrent.futures.Future.done() / cancelled()
Done(h) == fstate[h] \in {"CANCELLED", "FINISHED"}
Cancelled(h) == fstate[h] = "CANCELLED"

----------------------------------------------------------------------------
(* __init__ has returned: _start() created the loop and started the thread, *)
(* which has not yet entered run_forever.                                   *)

Init ==
    /\ loopSet = TRUE
    /\ threadSet = TRUE
    /\ loopState = "new"
    /\ stopping = FALSE
    /\ ntodo = 0
    /\ ready = <<>>
    /\ wpc = "starting"
    /\ wh = 0
    /\ tasks = <<>>
    /\ key_tasks = [k \in Keys |-> 0]
    /\ locks = [k \in Keys |-> 0]
    /\ bucket = [b \in Buckets |-> <<>>]
    /\ lockHolder = [b \in Buckets |-> "none"]
    /\ nb = 0
    /\ nh = 0
    /\ ncalls = 0
    /\ ncancels = 0
    /\ stopCalled = FALSE
    /\ hnd = [h \in Handles |-> NoHnd]
    /\ fstate = [h \in Handles |-> "NONE"]
    /\ fres = [h \in Handles |-> NoRes]
    /\ fcbs = [h \in Handles |-> <<>>]
    /\ tstate = [h \in Handles |-> "none"]
    /\ tres = [h \in Handles |-> NoRes]
    /\ tcancel = [h \in Handles |-> FALSE]
    /\ tbody = [h \in Handles |-> 0]
    /\ wfut = [h \in Handles |-> NoRes]
    /\ g = [st |-> "none", wait |-> {}, fut |-> "NONE"]
    /\ pc = [t \in Callers |-> "idle"]
    /\ loc = [t \in Callers |-> NoLoc]
    /\ cbq = [t \in Threads |-> <<>>]
    /\ mainq = <<>>
    /\ ran = <<>>
    /\ returned = {}
    /\ creq = {}
    /\ early = {}
    /\ raised = {}
    /\ rfres = [t \in Callers |-> NoRes]
    /\ par = [t \in Callers |-> NoPar]
    /\ starts = [calls |-> 0, raised |-> 0, made |-> 1]

----------------------------------------------------------------------------
(* The done callbacks of a handle *)

\* _invoke_main(func, *args): the emissions es are queued to the main thread
invoke_main(q, es) == q \o es

\* a signal connected so that the slot runs inside emit(), in the emitting thread
EmitRunsInline(es, t) == [i \in 1..Len(es) |-> [e |-> es[i], by |-> t]]

\* _GuiInvoker, line 63: the signal is connected with Qt.ConnectionType.QueuedConnection,
\* so emit() by thread t runs nothing in t
EmitRuns(es, t) == <<>>

\* a _handle whose `else` (on_success) also ran after the `except` (on_error)
HandleEmitsBoth(h, st, res) ==
    IF st = "CANCELLED" THEN <<Emit("on_done", h, "None")>>
    ELSE IF res.r = "exc"
         THEN <<Emit("on_error", h, "exc"), Emit("on_success", h, "result"),
                Emit("on_done", h, "None")>>
         ELSE <<Emit("on_success", h, "result"), Emit("on_done", h, "result")>>

\* a _handle without the f.cancelled() test: a cancelled handle goes to on_error
HandleEmitsErrorOnCancel(h, st, res) ==
    IF st = "CANCELLED" \/ res.r = "exc"
    THEN <<Emit("on_error", h, "exc"), Emit("on_done", h, "None")>>
    ELSE <<Emit("on_success", h, "result"), Emit("on_done", h, "result")>>

\* run_task._handle, lines 237-253: what it hands to the main thread before
\* it looks at self._tasks (on_success, on_error and on_done are given)
HandleEmits(h, st, res) ==
    IF st = "CANCELLED" THEN <<Emit("on_done", h, "None")>>
    ELSE IF res.r = "exc" THEN <<Emit("on_error", h, "exc"), Emit("on_done", h, "None")>>
    ELSE <<Emit("on_success", h, "result"), Emit("on_done", h, "result")>>

\* a read of _tasks that leaves the registration in place
PopTasksKeep(ts, h) == ts

\* cb = self._tasks.pop(fut, None); if cb: self._invoke_main(cb)
PopTasks(ts, h) == Remove(ts, h)

PopEmits(ts, h) == IF h \in Range(ts) THEN <<Emit("cancel", h, "None")>> ELSE <<>>

\* run_background.cleanup of handle h, by thread t: blocks on the lock of the
\* bucket it closed over, then pops the KEY from both maps if that bucket is empty
Cleanup(t, h) ==
    LET b == hnd[h].b
        nbk == Remove(bucket[b], h)
    IN /\ lockHolder[hnd[h].l] = "none"
       /\ bucket' = [bucket EXCEPT ![b] = nbk]
       /\ IF nbk = <<>>
          THEN /\ key_tasks' = [key_tasks EXCEPT ![hnd[h].key] = 0]
               /\ locks' = [locks EXCEPT ![hnd[h].key] = 0]
          ELSE UNCHANGED <<key_tasks, locks>>
       /\ UNCHANGED <<lockHolder, nb, ready, tasks, mainq, ran>>

\* run_task._handle of handle h, run by thread t
Handle(t, h) ==
    /\ mainq' = invoke_main(mainq, HandleEmits(h, fstate[h], fres[h]) \o PopEmits(tasks, h))
    /\ ran' = ran \o EmitRuns(HandleEmits(h, fstate[h], fres[h]) \o PopEmits(tasks, h), t)
    /\ tasks' = PopTasks(tasks, h)
    /\ UNCHANGED <<mapVars, ready>>

\* asyncio.futures._chain_future._call_check_cancel on a handle made by
\* run_coroutine_threadsafe: a cancelled handle cancels its Task on the loop
\* (call_soon_threadsafe raises on a closed loop; Future._invoke_callbacks logs it)
Chain(h) ==
    /\ ready' = IF Cancelled(h) /\ loopState /= "closed"
                THEN Append(ready, Item("tcancel", h)) ELSE ready
    /\ UNCHANGED <<mapVars, tasks, mainq, ran>>

\* _chain_future._call_set_state for the wrap_future(parent) that wrapper w awaits
Wake(w) ==
    /\ ready' = IF loopState /= "closed" THEN Append(ready, Item("setstate", w)) ELSE ready
    /\ UNCHANGED <<mapVars, tasks, mainq, ran>>

\* _chain_future._call_set_state for the wrap_future(f) of gather_all, f = handle p
KWake(p) ==
    /\ ready' = IF loopState /= "closed" THEN Append(ready, Item("kset", p)) ELSE ready
    /\ UNCHANGED <<mapVars, tasks, mainq, ran>>

RunCallback(t) ==
    /\ cbq[t] /= <<>>
    /\ LET cb == Head(cbq[t])
       IN CASE cb.k = "cleanup" -> Cleanup(t, cb.h)
            [] cb.k = "handle" -> Handle(t, cb.h)
            [] cb.k = "chain" -> Chain(cb.h)
            [] cb.k = "wake" -> Wake(cb.h)
            [] cb.k = "kwake" -> KWake(cb.h)
    /\ cbq' = [cbq EXCEPT ![t] = Tail(cbq[t])]
    /\ UNCHANGED <<loopSet, threadSet, loopState, stopping, ntodo, wpc, wh, g, nh,
                   countVars, hnd, futVars, taskVars, pc, loc, returned, creq, early, raised, rfres, par, starts>>

----------------------------------------------------------------------------
(* Handles *)

\* concurrent.futures.Future.cancel() by thread t: only a PENDING future becomes
\* CANCELLED, and its done callbacks then run inline in t
FutCancel(t, h) ==
    IF fstate[h] = "PENDING"
    THEN /\ fstate' = [fstate EXCEPT ![h] = "CANCELLED"]
         /\ cbq' = [cbq EXCEPT ![t] = fcbs[h]]
         /\ fcbs' = [fcbs EXCEPT ![h] = <<>>]
         /\ fres' = fres
    ELSE UNCHANGED <<fstate, cbq, fcbs, fres>>

\* self._loop and self._loop.is_running()
IsRunning == loopSet /\ loopState = "running"

\* _schedule, lines 129-136: the state of the new Future and what goes to the loop.
\* Not running: Future(); set_running_or_notify_cancel() makes it RUNNING, and
\* cancel() on a RUNNING future returns False and changes nothing.
ScheduleState == IF IsRunning THEN "PENDING" ELSE "RUNNING"

ScheduleKind == IF IsRunning THEN "sched" ELSE "dummy"

ScheduleItems(h) == IF IsRunning THEN <<Item("spawn", h)>> ELSE <<>>

----------------------------------------------------------------------------
(* The worker thread: _runner, and asyncio's loop *)

WorkerFree == wpc = "loop" /\ cbq[Worker] = <<>>
CanProcess == WorkerFree /\ ready /= <<>> /\ ~(stopping /\ ntodo = 0)
It == Head(ready)
Rest == Tail(ready)
Batch == IF stopping THEN ntodo - 1 ELSE 0

\* _runner: loop.run_forever(); on a closed loop it raises and the thread ends
WorkerStart ==
    /\ wpc = "starting"
    /\ IF loopState = "closed"
       THEN wpc' = "exited" /\ UNCHANGED loopState
       ELSE wpc' = "loop" /\ loopState' = "running"
    /\ UNCHANGED <<loopSet, threadSet, stopping, ntodo, ready, wh, g, tasks, mapVars, nh,
                   countVars, hnd, futVars, taskVars, pc, loc, cbq, mainq, ran, returned,
                   creq, early, raised, rfres, par, starts>>

\* what a finished Task schedules: the chain to its handle, then gather's callback
DoneItems(h) ==
    <<Item("publish", h)>> \o (IF h \in g.wait THEN <<Item("gdone", h)>> ELSE <<>>)

\* run_coroutine_threadsafe's callback: ensure_future(coro), _chain_future(task, handle)
Spawn ==
    /\ CanProcess /\ It.k = "spawn"
    /\ tstate' = [tstate EXCEPT ![It.h] = "sched"]
    /\ IF Done(It.h)
       THEN /\ ready' = Rest \o <<Item("step", It.h), Item("tcancel", It.h)>>
            /\ fcbs' = fcbs
       ELSE /\ ready' = Append(Rest, Item("step", It.h))
            /\ fcbs' = [fcbs EXCEPT ![It.h] = Append(@, Item("chain", It.h))]
    /\ ntodo' = Batch
    /\ UNCHANGED <<loopSet, threadSet, loopState, stopping, wpc, wh, g, tasks, mapVars, nh,
                   countVars, hnd, fstate, fres, tres, tcancel, tbody, wfut, pc, loc, cbq,
                   mainq, ran, returned, creq, early, raised, rfres, par, starts>>

\* the user's coroutine at a step: it ends (returning or raising, as the
\* coroutine that was passed in does), or awaits again
Body(h) ==
    {IF hnd[h].co = "raises" THEN Res("exc", h) ELSE Res("ok", h)}
        \cup (IF tbody[h] < MaxSuspend THEN {Res("susp", 0)} ELSE {})

\* a wrapper without the try / except around the wait
wrapperNoExcept(h, wf) ==
    IF wf.r = "cancelled" THEN {Res("cancelled", 0)}
    ELSE IF wf.r = "exc" THEN {wf}
    ELSE Body(h)

\* run_background.wrapper, lines 166-171, resumed with the wrap_future(parent)'s
\* outcome wf: `except Exception` catches the parent's exception, not
\* asyncio.CancelledError (a BaseException); then `return await coro`
wrapper(h, wf) ==
    IF wf.r = "cancelled" THEN {Res("cancelled", 0)} ELSE Body(h)

\* Task.__step of the Task of handle h
StepOutcomes(h) ==
    IF tcancel[h]
    THEN IF tbody[h] = 0 THEN {Res("cancelled", 0)}
         ELSE {Res("cancelled", 0)} \cup Body(h)
    ELSE IF hnd[h].parent /= 0 /\ tbody[h] = 0
         THEN IF wfut[h].r = "none" THEN {Res("wait", 0)} ELSE wrapper(h, wfut[h])
         ELSE Body(h)

\* the Task of h runs run_parallel's gather_all
IsComposite(h) == hnd[h].api = "gather_all"

Step ==
    /\ CanProcess /\ It.k = "step" /\ ~IsComposite(It.h)
    /\ LET h == It.h
           p == hnd[h].parent
       IN \E out \in StepOutcomes(h) :
            /\ tcancel' = [tcancel EXCEPT ![h] = FALSE]
            /\ tbody' = [tbody EXCEPT ![h] = IF out.r = "susp" \/ out.o = h THEN @ + 1 ELSE @]
            /\ tstate' = [tstate EXCEPT ![h] =
                            CASE out.r = "wait" -> "waitp"
                              [] out.r = "susp" -> "susp"
                              [] OTHER -> "done"]
            /\ tres' = [tres EXCEPT ![h] = IF out.r \in {"wait", "susp"} THEN @ ELSE out]
            /\ wfut' = [wfut EXCEPT ![h] = IF out.r = "wait" THEN Res("pending", 0) ELSE @]
            /\ fcbs' = IF out.r = "wait" /\ ~Done(p)
                       THEN [fcbs EXCEPT ![p] = Append(@, Item("wake", h))] ELSE fcbs
            /\ ready' = CASE out.r = "wait" ->
                                IF Done(p) THEN Append(Rest, Item("setstate", h)) ELSE Rest
                          [] out.r = "susp" -> Rest
                          [] OTHER -> Rest \o DoneItems(h)
    /\ ntodo' = Batch
    /\ UNCHANGED <<loopSet, threadSet, loopState, stopping, wpc, wh, g, tasks, mapVars, nh,
                   countVars, hnd, fstate, fres, pc, loc, cbq, mainq, ran, returned, creq, early, raised, rfres, par, starts>>

\* what the coroutine of h awaits completes (a timer, I/O)
ExternalWake(h) ==
    /\ tstate[h] = "susp"
    /\ loopState = "running"
    /\ tstate' = [tstate EXCEPT ![h] = "sched"]
    /\ ready' = Append(ready, Item("step", h))
    /\ UNCHANGED <<loopSet, threadSet, loopState, stopping, ntodo, wpc, wh, g, tasks, mapVars,
                   nh, countVars, hnd, futVars, tres, tcancel, tbody, wfut, pc, loc, cbq,
                   mainq, ran, returned, creq, early, raised, rfres, par, starts>>

\* Task.cancel(): a Task that awaits has its awaited future cancelled, which
\* schedules that future's callbacks; otherwise _must_cancel is set
Live(h) == tstate[h] \notin {"none", "done"}
CancelItemsOf(h) ==
    IF tstate[h] = "waitp" THEN <<Item("pcancel", h), Item("step", h)>>
    ELSE IF tstate[h] = "susp" THEN <<Item("step", h)>>
    ELSE <<>>
RECURSIVE CancelItems(_)
CancelItems(ord) ==
    IF ord = <<>> THEN <<>> ELSE CancelItemsOf(Head(ord)) \o CancelItems(Tail(ord))

TaskCancel(S) ==
    /\ tcancel' = [h \in Handles |-> IF h \in S /\ Live(h) THEN TRUE ELSE tcancel[h]]
    /\ tstate' = [h \in Handles |->
                    IF h \in S /\ tstate[h] \in {"waitp", "susp"} THEN "sched" ELSE tstate[h]]
    /\ wfut' = [h \in Handles |->
                    IF h \in S /\ tstate[h] = "waitp" THEN Res("cancelled", 0) ELSE wfut[h]]
    /\ UNCHANGED <<tres, tbody>>

\* source.cancel, scheduled by _call_check_cancel of a cancelled handle
TCancel ==
    /\ CanProcess /\ It.k = "tcancel"
    /\ TaskCancel({It.h})
    /\ ready' = Rest \o CancelItemsOf(It.h)
    /\ ntodo' = Batch
    /\ UNCHANGED <<loopSet, threadSet, loopState, stopping, wpc, wh, g, tasks, mapVars, nh,
                   countVars, hnd, futVars, pc, loc, cbq, mainq, ran, returned, creq, early, raised, rfres, par, starts>>

\* _set_state(wrap_future, parent) -> _copy_future_state: nothing if the
\* wrap_future was cancelled; else the parent's outcome, and the future's callbacks
\* (_call_check_cancel, which finds nothing to cancel, then the Task's wakeup)
SetState ==
    /\ CanProcess /\ It.k = "setstate"
    /\ LET w == It.h
           p == hnd[w].parent
       IN IF wfut[w].r = "pending"
          THEN /\ wfut' = [wfut EXCEPT ![w] = IF Cancelled(p) THEN Res("cancelled", 0) ELSE fres[p]]
               /\ tstate' = [tstate EXCEPT ![w] = "sched"]
               /\ ready' = Rest \o <<Item("nop", w), Item("step", w)>>
          ELSE /\ ready' = Rest
               /\ UNCHANGED <<wfut, tstate>>
    /\ ntodo' = Batch
    /\ UNCHANGED <<loopSet, threadSet, loopState, stopping, wpc, wh, g, tasks, mapVars, nh,
                   countVars, hnd, futVars, tres, tcancel, tbody, pc, loc, cbq, mainq, ran,
                   returned, creq, early, raised, rfres, par, starts>>

Nop ==
    /\ CanProcess /\ It.k = "nop"
    /\ ready' = Rest
    /\ ntodo' = Batch
    /\ UNCHANGED <<loopSet, threadSet, loopState, stopping, wpc, wh, g, tasks, mapVars, nh,
                   countVars, hnd, futVars, taskVars, pc, loc, cbq, mainq, ran, returned, creq, early,
                   raised, rfres, par, starts>>

\* _call_check_cancel of a cancelled wrap_future(parent): parent.cancel(), on the
\* worker thread
PCancel ==
    /\ CanProcess /\ It.k = "pcancel"
    /\ FutCancel(Worker, hnd[It.h].parent)
    /\ creq' = creq \cup {hnd[It.h].parent}
    /\ early' = early
    /\ ready' = Rest
    /\ ntodo' = Batch
    /\ UNCHANGED <<loopSet, threadSet, loopState, stopping, wpc, wh, g, tasks, mapVars, nh,
                   countVars, hnd, taskVars, pc, loc, mainq, ran, returned, raised, rfres, par, starts>>

\* _call_set_state of a finished Task -> _set_concurrent_future_state(handle, task):
\* a cancelled Task cancels the handle; else set_running_or_notify_cancel(), and
\* then, in a second call, set_result / set_exception
Publish ==
    /\ CanProcess /\ It.k = "publish"
    /\ LET h == It.h
       IN IF tres[h].r = "cancelled"
          THEN FutCancel(Worker, h) /\ UNCHANGED <<wpc, wh>>
          ELSE IF fstate[h] = "PENDING"
               THEN /\ fstate' = [fstate EXCEPT ![h] = "RUNNING"]
                    /\ wpc' = "publishing"
                    /\ wh' = h
                    /\ UNCHANGED <<fres, fcbs, cbq>>
               ELSE UNCHANGED <<futVars, cbq, wpc, wh>>
    /\ ready' = Rest
    /\ ntodo' = Batch
    /\ UNCHANGED <<loopSet, threadSet, loopState, stopping, g, tasks, mapVars, nh,
                   countVars, hnd, taskVars, pc, loc, mainq, ran, returned, creq, early, raised, rfres, par, starts>>

PublishEnd ==
    /\ wpc = "publishing"
    /\ fstate' = [fstate EXCEPT ![wh] = "FINISHED"]
    /\ fres' = [fres EXCEPT ![wh] = tres[wh]]
    /\ cbq' = [cbq EXCEPT ![Worker] = fcbs[wh]]
    /\ fcbs' = [fcbs EXCEPT ![wh] = <<>>]
    /\ wpc' = "loop"
    /\ wh' = 0
    /\ UNCHANGED <<loopSet, threadSet, loopState, stopping, ntodo, ready, g, tasks, mapVars,
                   nh, countVars, hnd, taskVars, pc, loc, mainq, ran, returned, creq, early, raised, rfres, par, starts>>

----------------------------------------------------------------------------
(* stop()'s _graceful coroutine on the loop, lines 279-293 *)

GSpawn ==
    /\ CanProcess /\ It.k = "gspawn"
    /\ g' = [g EXCEPT !.st = "sched"]
    /\ ready' = Append(Rest, Item("gstep", 0))
    /\ ntodo' = Batch
    /\ UNCHANGED <<loopSet, threadSet, loopState, stopping, wpc, wh, tasks, mapVars, nh,
                   countVars, hnd, futVars, taskVars, pc, loc, cbq, mainq, ran, returned, creq, early,
                   raised, rfres, par, starts>>

\* first step: cancel every other Task (asyncio.all_tasks() is a set: any order)
\* and await gather(*tasks); an empty gather is done at once, and so are
\* shutdown_asyncgens and shutdown_default_executor with nothing to shut down
GStepFirst ==
    /\ CanProcess /\ It.k = "gstep" /\ g.st = "sched"
    /\ LET targets == {h \in Handles : Live(h)}
       IN \E ord \in Perms(targets) :
            /\ TaskCancel(targets)
            /\ creq' = creq \cup targets
            /\ early' = early
            /\ IF targets = {}
               THEN /\ g' = [g EXCEPT !.st = "done"]
                    /\ ready' = Append(Rest, Item("gpublish", 0))
               ELSE /\ g' = [g EXCEPT !.st = "waiting", !.wait = targets]
                    /\ ready' = Rest \o CancelItems(ord)
    /\ ntodo' = Batch
    /\ UNCHANGED <<loopSet, threadSet, loopState, stopping, wpc, wh, tasks, mapVars, nh,
                   countVars, hnd, futVars, pc, loc, cbq, mainq, ran, returned, raised, rfres, par, starts>>

\* gather's callback on a cancelled Task: the last one wakes _graceful
GDone ==
    /\ CanProcess /\ It.k = "gdone"
    /\ g' = [g EXCEPT !.wait = @ \ {It.h}]
    /\ ready' = IF g.wait \ {It.h} = {} THEN Append(Rest, Item("gstep", 0)) ELSE Rest
    /\ ntodo' = Batch
    /\ UNCHANGED <<loopSet, threadSet, loopState, stopping, wpc, wh, tasks, mapVars, nh,
                   countVars, hnd, futVars, taskVars, pc, loc, cbq, mainq, ran, returned, creq, early,
                   raised, rfres, par, starts>>

GStepLast ==
    /\ CanProcess /\ It.k = "gstep" /\ g.st = "waiting"
    /\ g' = [g EXCEPT !.st = "done"]
    /\ ready' = Append(Rest, Item("gpublish", 0))
    /\ ntodo' = Batch
    /\ UNCHANGED <<loopSet, threadSet, loopState, stopping, wpc, wh, tasks, mapVars, nh,
                   countVars, hnd, futVars, taskVars, pc, loc, cbq, mainq, ran, returned, creq, early,
                   raised, rfres, par, starts>>

GPublish ==
    /\ CanProcess /\ It.k = "gpublish"
    /\ g' = [g EXCEPT !.fut = "FINISHED"]
    /\ ready' = Rest
    /\ ntodo' = Batch
    /\ UNCHANGED <<loopSet, threadSet, loopState, stopping, wpc, wh, tasks, mapVars, nh,
                   countVars, hnd, futVars, taskVars, pc, loc, cbq, mainq, ran, returned, creq, early,
                   raised, rfres, par, starts>>

\* loop.stop(): run_forever leaves after the current iteration (_run_once), which
\* runs the items that were in the queue when it began: some prefix of the rest
StopItem ==
    /\ CanProcess /\ It.k = "stop" /\ ~stopping
    /\ stopping' = TRUE
    /\ ready' = Rest
    /\ \E n \in 0..Len(Rest) : ntodo' = n
    /\ UNCHANGED <<loopSet, threadSet, loopState, wpc, wh, g, tasks, mapVars, nh,
                   countVars, hnd, futVars, taskVars, pc, loc, cbq, mainq, ran, returned, creq, early,
                   raised, rfres, par, starts>>

LoopExit ==
    /\ WorkerFree /\ stopping /\ ntodo = 0
    /\ stopping' = FALSE
    /\ loopState' = "stopped"
    /\ wpc' = "exited"
    /\ UNCHANGED <<loopSet, threadSet, ntodo, ready, wh, g, tasks, mapVars, nh,
                   countVars, hnd, futVars, taskVars, pc, loc, cbq, mainq, ran, returned, creq, early,
                   raised, rfres, par, starts>>

----------------------------------------------------------------------------
(* The caller threads *)

Free(t) == cbq[t] = <<>>

\* after run_background / _schedule: run_task registers the cancel callback and
\* _handle, run_foreground waits for the result
AfterRB(api, cb) ==
    IF api = "run_task" THEN (IF cb THEN "rt_reg" ELSE "rt_addcb")
    ELSE IF api = "run_foreground" THEN "rf_wait"
    ELSE IF api = "run_parallel" THEN "rp_ret"
    ELSE "ret"

\* handles accepted (appended to a bucket) under key by calls that have returned
Accepted(h) == hnd[h].b /= 0
PriorOf(key) == {h \in returned : hnd[h].key = key /\ Accepted(h)}

\* run_background, lines 145-148 (and run_task's call of it): without a key, or
\* RUN_INDEPENDENT, _schedule(coro); else _get_bucket(key)
Coros == {"returns", "raises"}

\* a run_background that goes on to the bucket only without a key
UnkeyedNoneOnly(key, strat) == key = NoKey

\* line 145: key is None or multiple_strategy == RUN_INDEPENDENT
Unkeyed(key, strat) == key = NoKey \/ strat = "RUN_INDEPENDENT"

Call(t, api, key, strat, cb, co) ==
    /\ pc[t] = "idle" /\ ncalls < MaxCalls
    /\ ncalls' = ncalls + 1
    /\ IF Unkeyed(key, strat)
       THEN LET h == nh + 1
            IN /\ nh' = h
               /\ hnd' = [hnd EXCEPT ![h] = [NoHnd EXCEPT !.api = api, !.key = key,
                              !.strat = strat, !.kind = ScheduleKind, !.cb = cb, !.co = co]]
               /\ fstate' = [fstate EXCEPT ![h] = ScheduleState]
               /\ ready' = ready \o ScheduleItems(h)
               /\ pc' = [pc EXCEPT ![t] = AfterRB(api, cb)]
               /\ loc' = [loc EXCEPT ![t] = [NoLoc EXCEPT !.op = "call", !.api = api,
                              !.key = key, !.strat = strat, !.cb = cb, !.co = co, !.h = h]]
               /\ UNCHANGED <<key_tasks, locks, nb>>
       ELSE LET b == IF key_tasks[key] /= 0 THEN key_tasks[key] ELSE nb + 1
                l == IF locks[key] /= 0 THEN locks[key] ELSE nb + 1
            IN /\ key_tasks' = [key_tasks EXCEPT ![key] = b]
               /\ locks' = [locks EXCEPT ![key] = l]
               /\ nb' = IF key_tasks[key] = 0 \/ locks[key] = 0 THEN nb + 1 ELSE nb
               /\ pc' = [pc EXCEPT ![t] = "rb_lock"]
               /\ loc' = [loc EXCEPT ![t] = [NoLoc EXCEPT !.op = "call", !.api = api,
                              !.key = key, !.strat = strat, !.cb = cb, !.co = co,
                              !.b = b, !.l = l,
                              !.prior = PriorOf(key)]]
               /\ UNCHANGED <<nh, hnd, fstate, ready>>
    /\ UNCHANGED <<loopSet, threadSet, loopState, stopping, ntodo, wpc, wh, g, tasks, bucket,
                   lockHolder, ncancels, stopCalled, fres, fcbs, taskVars, cbq, mainq, ran,
                   returned, creq, early, raised, rfres, par, starts>>

\* lines 154-156: Future(); set_running_or_notify_cancel(); cancel()
RejectState == "RUNNING"

\* lines 151-178, under the per-key lock: the strategy, _schedule, bucket.append
RbLock(t) ==
    /\ pc[t] = "rb_lock"
    /\ lockHolder[loc[t].l] = "none"
    /\ LET b == loc[t].b
           bk == bucket[b]
           st == loc[t].strat
           h == nh + 1
           reject == st = "REJECT_NEW_TASK" /\ \E i \in 1..Len(bk) : ~Done(bk[i])
           kept == IF st = "CANCEL_OLD_TASK" THEN <<>> ELSE bk
           parent == IF st = "QUEUE" /\ bk /= <<>> THEN Last(bk) ELSE 0
       IN /\ nh' = h
          /\ IF reject
             THEN /\ hnd' = [hnd EXCEPT ![h] = [NoHnd EXCEPT !.api = loc[t].api,
                                 !.key = loc[t].key, !.strat = st, !.kind = "reject",
                                 !.cb = loc[t].cb, !.co = loc[t].co, !.prior = loc[t].prior]]
                  /\ fstate' = [fstate EXCEPT ![h] = RejectState]
                  /\ pc' = [pc EXCEPT ![t] = AfterRB(loc[t].api, loc[t].cb)]
                  /\ loc' = [loc EXCEPT ![t].h = h]
                  /\ UNCHANGED <<ready, bucket, lockHolder>>
             ELSE /\ hnd' = [hnd EXCEPT ![h] = [NoHnd EXCEPT !.api = loc[t].api,
                                 !.key = loc[t].key, !.strat = st, !.kind = ScheduleKind,
                                 !.parent = parent, !.b = b, !.l = loc[t].l,
                                 !.cb = loc[t].cb, !.co = loc[t].co, !.prior = loc[t].prior]]
                  /\ fstate' = [fstate EXCEPT ![h] = ScheduleState]
                  /\ ready' = ready \o ScheduleItems(h)
                  /\ bucket' = [bucket EXCEPT ![b] = Append(kept, h)]
                  /\ lockHolder' = [lockHolder EXCEPT ![loc[t].l] = t]
                  /\ pc' = [pc EXCEPT ![t] = "rb_addcb"]
                  /\ loc' = [loc EXCEPT ![t].h = h,
                                        ![t].old = IF st = "CANCEL_OLD_TASK" THEN bk ELSE <<>>]
    /\ UNCHANGED <<loopSet, threadSet, loopState, stopping, ntodo, wpc, wh, g, tasks,
                   key_tasks, locks, nb, countVars, fres, fcbs, taskVars, cbq, mainq, ran,
                   returned, creq, early, raised, rfres, par, starts>>

\* line 189, still under the lock: fut.add_done_callback(cleanup).  On a handle
\* that is already done the callback runs at once, in this thread, and acquires
\* the threading.Lock this thread holds.
RbAddCb(t) ==
    /\ pc[t] = "rb_addcb"
    /\ LET h == loc[t].h
       IN IF Done(h)
          THEN /\ cbq' = [cbq EXCEPT ![t] = <<Item("cleanup", h)>>]
               /\ pc' = [pc EXCEPT ![t] = "rb_inline"]
               /\ UNCHANGED <<fcbs, lockHolder>>
          ELSE /\ fcbs' = [fcbs EXCEPT ![h] = Append(@, Item("cleanup", h))]
               /\ lockHolder' = [lockHolder EXCEPT ![loc[t].l] = "none"]
               /\ pc' = [pc EXCEPT ![t] = IF loc[t].old = <<>>
                                          THEN AfterRB(loc[t].api, loc[t].cb) ELSE "iter"]
               /\ cbq' = cbq
    /\ UNCHANGED <<loopVars, tasks, key_tasks, locks, bucket, nb, nh, countVars, hnd,
                   fstate, fres, taskVars, loc, mainq, ran, returned, creq, early, raised, rfres, par, starts>>

\* cancel_task, line 263: fut.cancel(); called by the eviction loop (lines
\* 192-193) and by stop()'s loop (lines 270-271) for the next handle of their list
CancelNext(t) ==
    /\ pc[t] = "iter" /\ Free(t)
    /\ FutCancel(t, Head(loc[t].old))
    /\ creq' = creq \cup {Head(loc[t].old)}
    /\ early' = IF Done(Head(loc[t].old)) THEN early ELSE early \cup {Head(loc[t].old)}
    /\ loc' = [loc EXCEPT ![t].ct = Head(loc[t].old), ![t].old = Tail(loc[t].old)]
    /\ pc' = [pc EXCEPT ![t] = "ct_pop"]
    /\ UNCHANGED <<loopVars, tasks, mapVars, nh, countVars, hnd, taskVars, mainq, ran,
                   returned, raised, rfres, par, starts>>

\* cancel_task(h) called by a caller on a handle it was given
CancelTask(t, h) ==
    /\ pc[t] = "idle" /\ ncancels < MaxCancels
    /\ h \in returned
    /\ ncancels' = ncancels + 1
    /\ FutCancel(t, h)
    /\ creq' = creq \cup {h}
    /\ early' = IF Done(h) THEN early ELSE early \cup {h}
    /\ loc' = [loc EXCEPT ![t] = [NoLoc EXCEPT !.op = "cancel", !.ct = h]]
    /\ pc' = [pc EXCEPT ![t] = "ct_pop"]
    /\ UNCHANGED <<loopVars, tasks, mapVars, nh, ncalls, stopCalled, hnd, taskVars, mainq, ran,
                   returned, raised, rfres, par, starts>>

\* cancel_task, lines 264-266
CtPop(t) ==
    /\ pc[t] = "ct_pop" /\ Free(t)
    /\ mainq' = invoke_main(mainq, PopEmits(tasks, loc[t].ct))
    /\ ran' = ran \o EmitRuns(PopEmits(tasks, loc[t].ct), t)
    /\ tasks' = PopTasks(tasks, loc[t].ct)
    /\ IF loc[t].op = "cancel"
       THEN /\ pc' = [pc EXCEPT ![t] = "idle"]
            /\ loc' = [loc EXCEPT ![t] = NoLoc]
       ELSE /\ pc' = [pc EXCEPT ![t] =
                        IF loc[t].old /= <<>> THEN "iter"
                        ELSE IF loc[t].op = "stop" THEN "st_check"
                        ELSE AfterRB(loc[t].api, loc[t].cb)]
            /\ loc' = [loc EXCEPT ![t].ct = 0]
    /\ UNCHANGED <<loopVars, mapVars, nh, countVars, hnd, futVars, taskVars, cbq,
                   returned, creq, early, raised, rfres, par, starts>>

\* run_task, lines 233-234
RtReg(t) ==
    /\ pc[t] = "rt_reg" /\ Free(t)
    /\ tasks' = IF loc[t].h \in Range(tasks) THEN tasks ELSE Append(tasks, loc[t].h)
    /\ pc' = [pc EXCEPT ![t] = "rt_addcb"]
    /\ UNCHANGED <<loopVars, mapVars, nh, countVars, hnd, futVars, taskVars, loc, cbq,
                   mainq, ran, returned, creq, early, raised, rfres, par, starts>>

\* run_task, line 259: fut.add_done_callback(_handle)
RtAddCb(t) ==
    /\ pc[t] = "rt_addcb" /\ Free(t)
    /\ LET h == loc[t].h
       IN IF Done(h)
          THEN cbq' = [cbq EXCEPT ![t] = <<Item("handle", h)>>] /\ fcbs' = fcbs
          ELSE fcbs' = [fcbs EXCEPT ![h] = Append(@, Item("handle", h))] /\ cbq' = cbq
    /\ pc' = [pc EXCEPT ![t] = "ret"]
    /\ UNCHANGED <<loopVars, tasks, mapVars, nh, countVars, hnd, fstate, fres, taskVars,
                   loc, mainq, ran, returned, creq, early, raised, rfres, par, starts>>

\* the scheduling call returns its handle
Ret(t) ==
    /\ pc[t] = "ret" /\ Free(t)
    /\ returned' = returned \cup {loc[t].h}
    /\ pc' = [pc EXCEPT ![t] = "idle"]
    /\ loc' = [loc EXCEPT ![t] = NoLoc]
    /\ UNCHANGED <<loopVars, tasks, mapVars, nh, countVars, hnd, futVars, taskVars, cbq,
                   mainq, ran, creq, early, raised, rfres, par, starts>>

\* run_foreground, line 220: Future.result() without timeout blocks until the
\* handle is done, then returns its result or raises its exception / CancelledError
RfResult(t) ==
    /\ pc[t] = "rf_wait" /\ Free(t)
    /\ Done(loc[t].h)
    /\ rfres' = [rfres EXCEPT ![t] = IF Cancelled(loc[t].h) THEN Res("cancelled", 0)
                                                            ELSE fres[loc[t].h]]
    /\ pc' = [pc EXCEPT ![t] = "idle"]
    /\ loc' = [loc EXCEPT ![t] = NoLoc]
    /\ UNCHANGED <<loopVars, tasks, mapVars, nh, countVars, hnd, futVars, taskVars, cbq,
                   mainq, ran, returned, creq, early, raised, par, starts>>

----------------------------------------------------------------------------
(* stop(timeout), lines 268-312, with a finite timeout *)

\* line 270: the list of self._tasks
Stop(t) ==
    /\ pc[t] = "idle" /\ ~stopCalled
    /\ stopCalled' = TRUE
    /\ loc' = [loc EXCEPT ![t] = [NoLoc EXCEPT !.op = "stop", !.old = tasks]]
    /\ pc' = [pc EXCEPT ![t] = IF tasks = <<>> THEN "st_check" ELSE "iter"]
    /\ UNCHANGED <<loopVars, tasks, mapVars, nh, ncalls, ncancels, hnd, futVars, taskVars,
                   cbq, mainq, ran, returned, creq, early, raised, rfres, par, starts>>

\* lines 273-295
StCheck(t) ==
    /\ pc[t] = "st_check" /\ Free(t)
    /\ IF ~loopSet \/ ~threadSet
       THEN /\ pc' = [pc EXCEPT ![t] = "idle"]
            /\ loc' = [loc EXCEPT ![t] = NoLoc]
            /\ UNCHANGED <<ready, g>>
       ELSE IF loopState = "running"
            THEN /\ ready' = Append(ready, Item("gspawn", 0))
                 /\ g' = [g EXCEPT !.st = "spawning", !.fut = "PENDING"]
                 /\ pc' = [pc EXCEPT ![t] = "st_wait"]
                 /\ loc' = loc
            ELSE /\ pc' = [pc EXCEPT ![t] = "st_close"]
                 /\ UNCHANGED <<ready, g, loc>>
    /\ UNCHANGED <<loopSet, threadSet, loopState, stopping, ntodo, wpc, wh, tasks, mapVars,
                   nh, countVars, hnd, futVars, taskVars, cbq, mainq, ran, returned, creq, early, raised, rfres, par, starts>>

\* lines 296-302: fut.result(timeout) returns or times out; either way
\* loop.call_soon_threadsafe(loop.stop)
StWait(t) ==
    /\ pc[t] = "st_wait"
    /\ ready' = Append(ready, Item("stop", 0))
    /\ pc' = [pc EXCEPT ![t] = "st_join"]
    /\ UNCHANGED <<loopSet, threadSet, loopState, stopping, ntodo, wpc, wh, g, tasks,
                   mapVars, nh, countVars, hnd, futVars, taskVars, loc, cbq, mainq, ran,
                   returned, creq, early, raised, rfres, par, starts>>

\* loop.close(); self._loop = None; self._thread = None
Close ==
    /\ loopState' = "closed"
    /\ ready' = <<>>
    /\ ntodo' = 0
    /\ loopSet' = FALSE
    /\ threadSet' = FALSE

\* lines 303-312: thread.join(timeout) returns when the thread has ended, or on
\* the timeout with the thread alive
StJoin(t) ==
    /\ pc[t] = "st_join"
    /\ IF wpc = "exited"
       THEN Close
       ELSE UNCHANGED <<loopState, ready, ntodo, loopSet, threadSet>>
    /\ pc' = [pc EXCEPT ![t] = "idle"]
    /\ loc' = [loc EXCEPT ![t] = NoLoc]
    /\ UNCHANGED <<stopping, wpc, wh, g, tasks, mapVars, nh, countVars, hnd, futVars,
                   taskVars, cbq, mainq, ran, returned, creq, early, raised, rfres, par, starts>>

\* lines 277 and 310: the loop was not running at line 277; loop.close() raises
\* RuntimeError on a loop that is running by now
StClose(t) ==
    /\ pc[t] = "st_close"
    /\ IF loopState = "running"
       THEN raised' = raised \cup {t} /\ UNCHANGED <<loopState, ready, ntodo, loopSet, threadSet>>
       ELSE Close /\ raised' = raised
    /\ pc' = [pc EXCEPT ![t] = "idle"]
    /\ loc' = [loc EXCEPT ![t] = NoLoc]
    /\ UNCHANGED <<stopping, wpc, wh, g, tasks, mapVars, nh, countVars, hnd, futVars,
                   taskVars, cbq, mainq, ran, returned, creq, early, rfres, par, starts>>

----------------------------------------------------------------------------
(* Specifications *)

\* the worker thread's steps that every use of the loop takes
WorkerCore ==
    \/ WorkerStart
    \/ Spawn
    \/ Step
    \/ Publish
    \/ PublishEnd
    \/ \E h \in Handles : ExternalWake(h)
    \/ \E t \in Threads : RunCallback(t)

WorkerNext ==
    \/ WorkerCore
    \/ TCancel
    \/ SetState
    \/ Nop
    \/ PCancel

StopNext ==
    \/ GSpawn
    \/ GStepFirst
    \/ GDone
    \/ GStepLast
    \/ GPublish
    \/ StopItem
    \/ LoopExit
    \/ \E t \in Callers : Stop(t) \/ StCheck(t) \/ StWait(t) \/ StJoin(t) \/ StClose(t)

CallerNext ==
    \/ \E t \in Callers : RbLock(t) \/ RbAddCb(t) \/ CancelNext(t) \/ CtPop(t)
    \/ \E t \in Callers : RtReg(t) \/ RtAddCb(t) \/ Ret(t) \/ RfResult(t)
    \/ \E t \in Callers, h \in Handles : CancelTask(t, h)

\* one caller thread that schedules under one key with REJECT_NEW_TASK
RejectNext ==
    \/ WorkerCore
    \/ RbLock("a") \/ RbAddCb("a") \/ Ret("a")
    \/ \E co \in Coros : Call("a", "run_background", "k", "REJECT_NEW_TASK", FALSE, co)

SpecReject == Init /\ [][RejectNext]_vars

----------------------------------------------------------------------------
(* C1 *)

Live1(K) == {h \in 1..nh : hnd[h].key = K /\ Accepted(h) /\ ~Done(h)}
OnlyReject(K) == \A h \in 1..nh : hnd[h].key = K => hnd[h].strat = "REJECT_NEW_TASK"

\* C1: when every task under key K is scheduled with REJECT_NEW_TASK, at most
\* one accepted handle under K is not done at any time, and a rejected call's
\* coroutine never gets a Task.
C1_AtMostOneAccepted ==
    \A K \in Keys :
        OnlyReject(K) =>
            /\ Cardinality(Live1(K)) <= 1
            /\ \A h \in 1..nh : hnd[h].kind = "reject" => tstate[h] = "none"

----------------------------------------------------------------------------
(* QUEUE *)

\* one caller thread that schedules under one key with QUEUE and cancels
QueueNext ==
    \/ WorkerCore
    \/ TCancel \/ SetState \/ Nop \/ PCancel
    \/ RbLock("a") \/ RbAddCb("a") \/ Ret("a") \/ CtPop("a")
    \/ \E h \in Handles : CancelTask("a", h)
    \/ \E co \in Coros : Call("a", "run_background", "k", "QUEUE", FALSE, co)

SpecQueue == Init /\ [][QueueNext]_vars

Queued(h) == hnd[h].strat = "QUEUE" /\ hnd[h].key /= NoKey

\* C2: under QUEUE, the body of T2 never begins before the handle of a T1
\* whose call under the same key returned before T2's call began is done.
C2_QueueOrder ==
    \A t2 \in 1..nh :
        Queued(t2) /\ tbody[t2] > 0 =>
            \A t1 \in hnd[t2].prior : Queued(t1) => Done(t1)

\* C5: a queued task whose own cancellation nobody requested is not cancelled
\* when the handle it waits on is cancelled: its coroutine still runs.
C5_CancelSwallowed ==
    \A w \in 1..nh :
        hnd[w].parent /= 0 /\ w \notin creq =>
            /\ ~Cancelled(w)
            /\ tres[w].r /= "cancelled"
            /\ (tstate[w] = "done" => tbody[w] > 0)

PredFailed(w) ==
    fstate[hnd[w].parent] = "FINISHED" /\ fres[hnd[w].parent].r = "exc"

\* C6: a queued task waits for the handle it was chained on; when that handle
\* ended by raising, the task's own coroutine runs (unless the task itself was
\* cancelled) and its handle carries its own result or failure.
C6_FailedPredecessorOnlyDelays ==
    \A w \in 1..nh :
        hnd[w].parent /= 0 =>
            /\ tbody[w] > 0 => Done(hnd[w].parent)
            /\ PredFailed(w) =>
                /\ tstate[w] = "done" /\ tres[w].r \in {"ok", "exc"} => tres[w].o = w
                /\ fstate[w] = "FINISHED" => fres[w].o = w
                /\ tstate[w] = "done" /\ w \notin creq =>
                        tbody[w] > 0 /\ tres[w].r /= "cancelled"

C6_Witness ==
    \E w \in 1..nh :
        /\ hnd[w].parent /= 0 /\ PredFailed(w)
        /\ fstate[w] = "FINISHED" /\ fres[w] = Res("ok", w)

----------------------------------------------------------------------------
(* Handles returned instead of scheduling *)

TurnedAway(h) == hnd[h].kind \in {"dummy", "reject"}

\* C4: a handle returned instead of scheduling the work (by _schedule when the
\* loop is not running, by run_background when REJECT_NEW_TASK rejects) is
\* cancelled and done when it is returned, not pending or running.
C4_TurnedAwayIsCancelled ==
    \A h \in returned : TurnedAway(h) => Cancelled(h) /\ Done(h)

----------------------------------------------------------------------------
(* CANCEL_OLD_TASK *)

\* one caller thread that schedules under one key with CANCEL_OLD_TASK
CancelOldNext ==
    \/ WorkerCore
    \/ TCancel
    \/ RbLock("a") \/ RbAddCb("a") \/ CancelNext("a") \/ CtPop("a") \/ Ret("a")
    \/ \E co \in Coros : Call("a", "run_background", "k", "CANCEL_OLD_TASK", FALSE, co)

SpecCancelOld == Init /\ [][CancelOldNext]_vars

InBucketOf(K, h) == key_tasks[K] /= 0 /\ h \in Range(bucket[key_tasks[K]])

\* C3: once run_background(coro, key=K, CANCEL_OLD_TASK) has returned, every
\* handle accepted under K by a call that returned before it began is done
\* (cancelled or completed) and is not a member of K's bucket.
C3_OldHandlesEnded ==
    \A h \in returned :
        hnd[h].strat = "CANCEL_OLD_TASK" /\ hnd[h].key /= NoKey =>
            \A p \in hnd[h].prior : Done(p) /\ ~InBucketOf(hnd[h].key, p)

----------------------------------------------------------------------------
(* run_task: what reaches the main thread *)

\* one caller thread that makes up to MaxTaskCalls calls of run_task under one
\* key with CANCEL_OLD_TASK, with and without a cancel callback, and cancel_task
TaskNext ==
    \/ WorkerCore
    \/ TCancel
    \/ RbLock("a") \/ RbAddCb("a") \/ CancelNext("a") \/ CtPop("a")
    \/ RtReg("a") \/ RtAddCb("a") \/ Ret("a")
    \/ \E h \in Handles : CancelTask("a", h)
    \/ /\ ncalls < MaxTaskCalls
       /\ \E cb \in BOOLEAN, co \in Coros :
            Call("a", "run_task", "k", "CANCEL_OLD_TASK", cb, co)

SpecTask == Init /\ [][TaskNext]_vars

RunTask(h) == hnd[h].api = "run_task"
At(kind, h) == {i \in 1..Len(mainq) : mainq[i].k = kind /\ mainq[i].h = h}
Count(kind, h) == Cardinality(At(kind, h))
\* _handle has run for h
Handled(h) == Count("on_done", h) > 0

\* C7: for a handle of run_task that ended completed (its coroutine's result or
\* exception was set on it), once _handle has run exactly one of on_success /
\* on_error was delivered, on_success exactly when the coroutine returned, and
\* on_done exactly once, after it; never more than one of each.
C7_OneOutcomeThenDone ==
    \A h \in 1..nh :
        RunTask(h) =>
            /\ Count("on_success", h) + Count("on_error", h) <= 1
            /\ Count("on_done", h) <= 1
            /\ Count("on_success", h) = 1 => fstate[h] = "FINISHED" /\ fres[h].r = "ok"
            /\ Count("on_error", h) = 1 => fstate[h] = "FINISHED" /\ fres[h].r = "exc"
            /\ Handled(h) /\ fstate[h] = "FINISHED" =>
                    /\ Count("on_success", h) + Count("on_error", h) = 1
                    /\ \A i \in At("on_success", h) \cup At("on_error", h) :
                            \A j \in At("on_done", h) : i < j

C7_Witness ==
    \E h \in 1..nh :
        /\ RunTask(h) /\ Handled(h)
        /\ fstate[h] = "FINISHED" /\ fres[h].r = "exc"
        /\ Count("on_error", h) = 1 /\ Count("on_success", h) = 0

\* C7 as stated: for every handle of run_task whose coroutine ran to completion
\* (returned or raised), exactly one of on_success / on_error is delivered.
C7_CoroutineCompleted ==
    \A h \in 1..nh :
        RunTask(h) /\ Handled(h) /\ tres[h].r \in {"ok", "exc"} =>
            Count("on_success", h) + Count("on_error", h) = 1

\* C8: for a handle of run_task that ended cancelled, on_success and on_error
\* are never delivered; on_done is delivered at most once, with None, and once
\* _handle has run exactly once, and then the cancel callback, if one was
\* given, has been delivered.
C8_CancelledOnlyDone ==
    \A h \in 1..nh :
        RunTask(h) /\ Cancelled(h) =>
            /\ Count("on_success", h) = 0
            /\ Count("on_error", h) = 0
            /\ Count("on_done", h) <= 1
            /\ \A i \in At("on_done", h) : mainq[i].arg = "None"
            /\ Handled(h) /\ hnd[h].cb => Count("cancel", h) = 1

C8_Witness ==
    \E h \in 1..nh :
        /\ RunTask(h) /\ Cancelled(h) /\ Handled(h) /\ hnd[h].cb
        /\ Count("cancel", h) = 1 /\ Count("on_done", h) = 1

\* C9: for a handle of run_task with a cancel callback, the cancel callback is
\* never delivered twice, and when cancel_task was called on the handle while
\* it was not done, on_success is never delivered for it.
C9_CancelOnceNoSuccess ==
    \A h \in 1..nh :
        RunTask(h) /\ hnd[h].cb =>
            /\ Count("cancel", h) <= 1
            /\ h \in early => Count("on_success", h) = 0

----------------------------------------------------------------------------
(* stop() while another thread schedules *)

\* thread "a" makes up to MaxTaskCalls calls of run_task with a cancel callback
\* under one key with CANCEL_OLD_TASK
StopCalls ==
    /\ ncalls < MaxTaskCalls
    /\ Call("a", "run_task", "k", "CANCEL_OLD_TASK", TRUE, "returns")

\* the steps of the worker thread, but for what the coroutines wait for
StopWorker ==
    \/ WorkerStart \/ Spawn \/ Step \/ TCancel \/ Publish \/ PublishEnd
    \/ GSpawn \/ GStepFirst \/ GDone \/ GStepLast \/ GPublish \/ StopItem \/ LoopExit
    \/ RunCallback(Worker)

\* the steps of thread "a" inside its calls
StopCaller ==
    \/ RbLock("a") \/ RbAddCb("a") \/ CancelNext("a") \/ CtPop("a")
    \/ RtReg("a") \/ RtAddCb("a") \/ Ret("a") \/ RunCallback("a")

\* the steps of thread "b" inside stop()
StopSteps ==
    \/ CancelNext("b") \/ CtPop("b") \/ RunCallback("b")
    \/ StCheck("b") \/ StWait("b") \/ StJoin("b") \/ StClose("b")

StopSpecNext ==
    \/ StopWorker
    \/ StopCaller
    \/ StopSteps
    \/ StopCalls
    \/ Stop("b")
    \/ \E h \in Handles : ExternalWake(h)

\* every thread that can take a step eventually takes one; when "a" calls, when
\* "b" calls stop() and when a coroutine's wait ends is up to them
FairSpecStop ==
    /\ Init /\ [][StopSpecNext]_vars
    /\ WF_vars(StopWorker) /\ WF_vars(StopCaller) /\ WF_vars(StopSteps)

\* C10: stop(timeout) with a finite timeout always returns to its caller.
C10_StopReturns == (loc["b"].op = "stop") ~> (loc["b"].op /= "stop")

----------------------------------------------------------------------------
(* stop(): closing the loop *)

\* the worker thread is alive: started, and _runner has not returned or raised
ThreadAlive == wpc /= "exited"

\* C11: while the worker thread is alive (a thread that has not yet entered
\* run_forever included) the loop is not closed and _loop and _thread stay set,
\* and stop() never raises.
C11_CloseOnlyAfterExit ==
    /\ ThreadAlive => loopSet /\ threadSet /\ loopState /= "closed"
    /\ raised = {}

\* a handle that _schedule gave to the running loop (run_coroutine_threadsafe)
Scheduled(h) == hnd[h].kind = "sched"

\* stop() has been called and has returned, with self._loop = None
StopReleased == stopCalled /\ ~loopSet /\ \A t \in Callers : loc[t].op /= "stop"

\* C12: when stop() has returned having released the loop, every handle that a
\* scheduling call gave to the loop is done (completed, failed or cancelled).
C12_NoLeakedHandles ==
    StopReleased => \A h \in 1..nh : Scheduled(h) => Done(h)

----------------------------------------------------------------------------
(* Every handle ends *)

\* thread "a" calls run_foreground, and run_task under one key with REJECT_NEW_TASK
DropCalls ==
    \E co \in Coros :
        \/ Call("a", "run_foreground", NoKey, "RUN_INDEPENDENT", FALSE, co)
        \/ Call("a", "run_task", "k", "REJECT_NEW_TASK", FALSE, co)

\* the worker thread, and the ends of the waits of the coroutines
DropWorker ==
    \/ WorkerStart \/ Spawn \/ Step \/ Publish \/ PublishEnd
    \/ RunCallback(Worker)
    \/ \E h \in Handles : ExternalWake(h)

\* the steps of thread "a" inside its calls
DropCaller ==
    \/ RbLock("a") \/ RbAddCb("a") \/ RtAddCb("a") \/ Ret("a") \/ RunCallback("a")
    \/ RfResult("a")

DropNext == DropWorker \/ DropCaller \/ DropCalls

\* both threads keep running and every coroutine's wait ends; when "a" calls
\* is up to it
FairSpecDrop ==
    /\ Init /\ [][DropNext]_vars
    /\ WF_vars(DropWorker) /\ WF_vars(DropCaller)

\* the handle run_foreground waits on
Foreground(h) == fstate[h] /= "NONE" /\ hnd[h].api = "run_foreground"

\* C13: every handle that was returned, or that run_foreground waits on,
\* eventually is done, and every handle returned by run_task eventually has its
\* on_done delivered.
C13_NoSilentDrops ==
    \A h \in Handles :
        /\ (h \in returned \/ Foreground(h)) ~> Done(h)
        /\ (h \in returned /\ RunTask(h)) ~> Handled(h)

----------------------------------------------------------------------------
(* The key maps after stop() *)

\* no call is in progress and no done callback is waiting to run
Quiet ==
    /\ \A t \in Callers : pc[t] = "idle"
    /\ \A t \in Threads : cbq[t] = <<>>
    /\ wpc /= "publishing"

\* key K has a task that is not over: a handle given to the loop and not done
HasLiveTask(K) ==
    /\ key_tasks[K] /= 0
    /\ \E h \in Range(bucket[key_tasks[K]]) : Scheduled(h) /\ ~Done(h)

\* C14: once stop() has returned and no call is in progress, _key_tasks and
\* _locks hold an entry only for a key that still has a task that is not over.
C14_NoEntryAfterStop ==
    stopCalled /\ Quiet =>
        \A K \in Keys : key_tasks[K] /= 0 \/ locks[K] /= 0 => HasLiveTask(K)

----------------------------------------------------------------------------
(* Scheduling while the loop is not running *)

\* the call found the loop not running and got the Future of lines 132-135
NotRunningHandle(h) == hnd[h].kind = "dummy"

\* C15: no scheduling call is turned away because the loop is not running: the
\* runner is started for it and its coroutine is given to the loop.
C15_NeverTurnedAway ==
    \A h \in 1..nh : ~NotRunningHandle(h)

----------------------------------------------------------------------------
(* The main thread: _GuiInvoker *)

MainThread == "main"

\* entries of ran that the main thread's event loop has dispatched
Dispatched == Cardinality({i \in 1..Len(ran) : ran[i].by = MainThread})

\* _GuiInvoker._dispatch, lines 65-67, run by the main thread's event loop for
\* the oldest queued emission: func(*args)
MainDispatch ==
    /\ Dispatched < Len(mainq)
    /\ ran' = Append(ran, [e |-> mainq[Dispatched + 1], by |-> MainThread])
    /\ UNCHANGED <<loopVars, tasks, mapVars, nh, countVars, hnd, futVars, taskVars, pc, loc,
                   cbq, mainq, returned, creq, early, raised, rfres, par, starts>>

\* run_task with callbacks, cancel_task, and the main thread
MainNext == TaskNext \/ MainDispatch

SpecMain == Init /\ [][MainNext]_vars

\* C16: every callback is executed by the main thread, never by the thread that
\* emitted it (the worker thread, or the caller of run_task / cancel_task), and
\* the callbacks are executed in the order in which they were emitted.
C16_QueuedFifo ==
    /\ \A i \in 1..Len(ran) : ran[i].by = MainThread
    /\ Len(ran) <= Len(mainq)
    /\ \A i \in 1..Len(ran) : ran[i].e = mainq[i]

\* the main thread has run a callback emitted by the worker thread's _handle and
\* the cancel callback emitted by a caller's cancel_task
C16_Witness ==
    /\ Len(ran) >= 2 /\ Len(ran) = Len(mainq)
    /\ \E i, j \in 1..Len(ran) :
        /\ ran[i].e.k = "cancel" /\ ran[i].e.h \in early
        /\ ran[j].e.k = "on_done" /\ ran[j].e.h = ran[i].e.h

----------------------------------------------------------------------------
(* run_task: the order of the deliveries *)

\* C17: for each handle of run_task, on_success / on_error is emitted before
\* on_done, and the cancel callback is never emitted before on_done.
C17_DeliveryOrder ==
    \A h \in 1..nh :
        RunTask(h) =>
            /\ \A i \in At("on_success", h) \cup At("on_error", h) :
                    \A j \in At("on_done", h) : i < j
            /\ \A i \in At("cancel", h) :
                    /\ At("on_done", h) /= {}
                    /\ \A j \in At("on_done", h) : j < i

-----------------------------------------------------------------------------
(* run_parallel, lines 197-216.  The handle followed here is the
   concurrent.futures.Future of line 215; line 216 mirrors it into an
   asyncio future of the calling thread's event loop.  No action below
   cancels that handle. *)

\* line 208 begins: the list comprehension over coros
RpStart(t, key, strat, cos) ==
    /\ pc[t] = "idle" /\ par[t].st = "none"
    /\ nh + Len(cos) + 1 <= MaxCalls
    /\ ncalls + Len(cos) <= MaxCalls
    /\ par' = [par EXCEPT ![t] = [NoPar EXCEPT !.st = "items", !.key = key,
                                      !.strat = strat, !.todo = cos]]
    /\ UNCHANGED <<loopVars, tasks, mapVars, nh, countVars, hnd, futVars, taskVars, pc,
                   loc, cbq, mainq, ran, returned, creq, early, raised, rfres, starts>>

\* line 208: self.run_background(c, key=key, multiple_strategy=multiple_strategy)
RpItem(t) ==
    /\ par[t].st = "items" /\ par[t].todo /= <<>>
    /\ Call(t, "run_parallel", par[t].key, par[t].strat, FALSE, Head(par[t].todo))

\* line 208: run_background returned, its handle is appended to futures
RpRet(t) ==
    /\ pc[t] = "rp_ret" /\ Free(t)
    /\ par' = [par EXCEPT ![t].subs = Append(@, loc[t].h), ![t].todo = Tail(@)]
    /\ pc' = [pc EXCEPT ![t] = "idle"]
    /\ loc' = [loc EXCEPT ![t] = NoLoc]
    /\ UNCHANGED <<loopVars, tasks, mapVars, nh, countVars, hnd, futVars, taskVars, cbq,
                   mainq, ran, returned, creq, early, raised, rfres, starts>>

\* lines 215-216: concurrent = self._schedule(gather_all()); the handle is returned
RpGather(t) ==
    /\ pc[t] = "idle" /\ par[t].st = "items" /\ par[t].todo = <<>>
    /\ LET c == nh + 1
       IN /\ nh' = c
          /\ hnd' = [hnd EXCEPT ![c] = [NoHnd EXCEPT !.api = "gather_all",
                         !.kind = ScheduleKind, !.kids = par[t].subs]]
          /\ fstate' = [fstate EXCEPT ![c] = ScheduleState]
          /\ ready' = ready \o ScheduleItems(c)
          /\ par' = [par EXCEPT ![t].st = "done", ![t].comp = c]
          /\ returned' = returned \cup {c}
    /\ UNCHANGED <<loopSet, threadSet, loopState, stopping, ntodo, wpc, wh, g, tasks, mapVars,
                   countVars, fres, fcbs, taskVars, pc, loc, cbq, mainq, ran, creq, early,
                   raised, rfres, starts>>

\* the run_parallel call whose gather_all is the coroutine of handle c
Owner(c) == CHOOSE t \in Callers : par[t].comp = c
\* the run_parallel call that made sub-handle p
OwnerOfKid(p) == CHOOSE t \in Callers : par[t].comp /= 0 /\ p \in Range(par[t].subs)

\* a gather with return_exceptions=True: a child's exception is a result
GatherReturnExceptions(outer, p, fin, kids) ==
    IF outer.r /= "none" THEN outer
    ELSE IF Cancelled(p) THEN Res("cancelled", 0)
    ELSE IF Range(fin) \cup {p} = Range(kids)
         THEN [r |-> "ok", o |-> [i \in 1..Len(kids) |-> fres[kids[i]].o]]
         ELSE NoRes

\* asyncio.gather(*async_futs)._done_callback(fut), return_exceptions False, for
\* the child of handle p, fin the children seen before: nothing once outer is
\* done; a cancelled child or a child's exception ends outer with it; the last
\* child ends outer with the results in the order of the children
GatherOutcome(outer, p, fin, kids) ==
    IF outer.r /= "none" THEN outer
    ELSE IF Cancelled(p) THEN Res("cancelled", 0)
    ELSE IF fres[p].r = "exc" THEN fres[p]
    ELSE IF Range(fin) \cup {p} = Range(kids)
         THEN [r |-> "ok", o |-> [i \in 1..Len(kids) |-> fres[kids[i]].o]]
         ELSE NoRes

IsDone(h) == Done(h)
KSetItems(ps) == [i \in 1..Len(ps) |-> Item("kset", ps[i])]

\* Task.__step of gather_all, lines 210-212.  First step: wrap_future(f) for
\* every f of futures (a done f has its state copied by a call_soon_threadsafe,
\* another gets a done callback), then gather and the wait for outer.  Resumed:
\* gather_all returns outer's result or raises what outer holds.
GatherStep ==
    /\ CanProcess /\ It.k = "step" /\ IsComposite(It.h)
    /\ LET c == It.h
           kids == hnd[c].kids
           outer == par[Owner(c)].outer
       IN IF tbody[c] = 0
          THEN /\ tbody' = [tbody EXCEPT ![c] = 1]
               /\ tstate' = [tstate EXCEPT ![c] = "waitk"]
               /\ ready' = Rest \o KSetItems(SelectSeq(kids, IsDone))
               /\ fcbs' = [h \in Handles |->
                             IF h \in Range(kids) /\ ~Done(h)
                             THEN Append(fcbs[h], Item("kwake", h)) ELSE fcbs[h]]
               /\ tres' = tres
          ELSE /\ tstate' = [tstate EXCEPT ![c] = "done"]
               /\ tres' = [tres EXCEPT ![c] = outer]
               /\ ready' = Rest \o DoneItems(c)
               /\ UNCHANGED <<tbody, fcbs>>
    /\ ntodo' = Batch
    /\ UNCHANGED <<loopSet, threadSet, loopState, stopping, wpc, wh, g, tasks, mapVars, nh,
                   countVars, hnd, fstate, fres, tcancel, wfut, pc, loc, cbq, mainq, ran,
                   returned, creq, early, raised, rfres, par, starts>>

\* _chain_future._set_state on the loop: the wrap_future of handle p takes p's
\* state and schedules its callback, gather's _done_callback
KSet ==
    /\ CanProcess /\ It.k = "kset"
    /\ ready' = Append(Rest, Item("kdone", It.h))
    /\ ntodo' = Batch
    /\ UNCHANGED <<loopSet, threadSet, loopState, stopping, wpc, wh, g, tasks, mapVars, nh,
                   countVars, hnd, futVars, taskVars, pc, loc, cbq, mainq, ran, returned,
                   creq, early, raised, rfres, par, starts>>

\* gather's _done_callback for the child of handle p; when it ends outer, the
\* Task of gather_all is woken
KDone ==
    /\ CanProcess /\ It.k = "kdone"
    /\ LET p == It.h
           t == OwnerOfKid(p)
           c == par[t].comp
           out == GatherOutcome(par[t].outer, p, par[t].fin, hnd[c].kids)
           ends == par[t].outer.r = "none" /\ out.r /= "none"
       IN /\ par' = [par EXCEPT ![t].outer = out, ![t].fin = Append(@, p)]
          /\ ready' = IF ends THEN Append(Rest, Item("step", c)) ELSE Rest
          /\ tstate' = IF ends THEN [tstate EXCEPT ![c] = "sched"] ELSE tstate
    /\ ntodo' = Batch
    /\ UNCHANGED <<loopSet, threadSet, loopState, stopping, wpc, wh, g, tasks, mapVars, nh,
                   countVars, hnd, futVars, tres, tcancel, tbody, wfut, pc, loc, cbq, mainq,
                   ran, returned, creq, early, raised, rfres, starts>>

\* thread "a" calls run_parallel once, with two coroutines, under key "k"
ParCoros == {<<c1, c2>> : c1 \in Coros, c2 \in Coros}

ParCalls == \E strat \in Strategies, cos \in ParCoros : RpStart("a", "k", strat, cos)

\* the worker thread, and the ends of the waits of the coroutines
ParWorker ==
    \/ WorkerStart \/ Spawn \/ Step \/ GatherStep \/ KSet \/ KDone
    \/ Publish \/ PublishEnd \/ TCancel \/ SetState \/ Nop
    \/ RunCallback(Worker)
    \/ \E h \in Handles : ExternalWake(h)

\* the steps of thread "a" inside run_parallel
ParCaller ==
    \/ RpItem("a") \/ RbLock("a") \/ RbAddCb("a") \/ CancelNext("a") \/ CtPop("a")
    \/ RpRet("a") \/ RpGather("a") \/ RunCallback("a")

ParNext == ParWorker \/ ParCaller \/ ParCalls

\* both threads keep running and every coroutine's wait ends
FairSpecPar ==
    /\ Init /\ [][ParNext]_vars
    /\ WF_vars(ParWorker) /\ WF_vars(ParCaller)

\* every coroutine handed to the run_parallel call behind c returns
AllReturn(c) == \A i \in 1..Len(hnd[c].kids) : hnd[hnd[c].kids[i]].co = "returns"
\* c ended with the sub-results in the order of the input
Listed(c) ==
    IsComposite(c) /\ fstate[c] = "FINISHED" /\ fres[c].r = "ok" /\ fres[c].o = hnd[c].kids

\* C18: the composite handle of run_parallel, for coroutines that all return,
\* ends with their results in the order of the input, under every strategy
C18_CompositeListsResults ==
    \A c \in Handles : (IsComposite(c) /\ AllReturn(c)) ~> Listed(c)

\* h ended with the exception its coroutine raised
Failed(h) == fstate[h] = "FINISHED" /\ fres[h].r = "exc"
\* h is a sub-handle of a run_parallel call
IsKid(h) == hnd[h].api = "run_parallel"
\* h and the handle its wrapper waits for, if any, were scheduled on the running loop
OnLoop(h) == Scheduled(h) /\ (hnd[h].parent /= 0 => Scheduled(hnd[h].parent))
\* the first failed sub-handle gather was told of
FirstFailure(c) == Head(SelectSeq(par[Owner(c)].fin, Failed))

-----------------------------------------------------------------------------
(* Tasks without a key, with RUN_INDEPENDENT, and under different keys *)

\* thread "a" schedules without a key, with RUN_INDEPENDENT under a key,
\* under the key "j" with QUEUE, and calls run_foreground; thread "b" cancels
IndepCalls ==
    \E co \in Coros :
        \/ Call("a", "run_background", NoKey, "RUN_INDEPENDENT", FALSE, co)
        \/ \E key \in Keys : Call("a", "run_background", key, "RUN_INDEPENDENT", FALSE, co)
        \/ Call("a", "run_background", "j", "QUEUE", FALSE, co)
        \/ Call("a", "run_foreground", NoKey, "RUN_INDEPENDENT", FALSE, co)

IndepNext ==
    \/ WorkerCore
    \/ TCancel \/ SetState \/ Nop \/ PCancel
    \/ ncalls < MaxTaskCalls /\ IndepCalls
    \/ RbLock("a") \/ RbAddCb("a") \/ Ret("a") \/ RfResult("a")
    \/ CtPop("b")
    \/ \E h \in Handles : CancelTask("b", h)

SpecIndep == Init /\ [][IndepNext]_vars

\* h was scheduled without a key or with RUN_INDEPENDENT (line 145)
Indep(h) == fstate[h] /= "NONE" /\ (hnd[h].key = NoKey \/ hnd[h].strat = "RUN_INDEPENDENT")
\* what the coroutine of h returns or raises
Own(h) == Res(IF hnd[h].co = "raises" THEN "exc" ELSE "ok", h)
\* cancel_task was called on h, or, for a task under a key, on a task of its key
CancelAsked(h) ==
    \/ h \in creq
    \/ hnd[h].key /= NoKey /\ \E o \in creq : hnd[o].key = hnd[h].key

\* C20: every task without a key or with RUN_INDEPENDENT is scheduled; a handle
\* that finished holds what its own coroutine returned or raised, a handle is
\* cancelled only after cancel_task on it or on a task of its own key, and
\* run_foreground returned or raised what its own coroutine did
C20_Independent ==
    /\ \A h \in 1..nh : Indep(h) => Scheduled(h)
    /\ \A h \in 1..nh : /\ fstate[h] = "FINISHED" => fres[h] = Own(h)
                        /\ Cancelled(h) => CancelAsked(h)
    /\ \A t \in Callers : rfres[t].r /= "none" =>
            /\ rfres[t].r \in {"ok", "exc"}
            /\ hnd[rfres[t].o].api = "run_foreground"
            /\ rfres[t] = Own(rfres[t].o)

-----------------------------------------------------------------------------
(* _start, lines 115-127, called again after construction *)

MaxStarts == 2

\* a _start without the check of line 116
NeverStarted == FALSE

\* line 116: if self._loop
AlreadyStarted == loopSet

\* lines 116-125: the check and the raise, or new_event_loop() and
\* thread.start().  The model holds one worker thread: the creation is followed
\* once the previous worker thread has ended.
Start(t) ==
    /\ pc[t] = "idle" /\ starts.calls < MaxStarts
    /\ AlreadyStarted \/ wpc = "exited"
    /\ IF AlreadyStarted
       THEN /\ starts' = [starts EXCEPT !.calls = @ + 1, !.raised = @ + 1]
            /\ UNCHANGED <<loopState, stopping, ntodo, ready, wpc, pc, loc>>
       ELSE /\ starts' = [starts EXCEPT !.calls = @ + 1, !.made = @ + 1]
            /\ loopState' = "new"
            /\ stopping' = FALSE
            /\ ntodo' = 0
            /\ ready' = <<>>
            /\ wpc' = "starting"
            /\ pc' = [pc EXCEPT ![t] = "start_set"]
            /\ loc' = [loc EXCEPT ![t] = [NoLoc EXCEPT !.op = "start"]]
    /\ UNCHANGED <<loopSet, threadSet, wh, g, tasks, mapVars, nh, countVars, hnd, futVars,
                   taskVars, cbq, mainq, ran, returned, creq, early, raised, rfres, par>>

\* lines 126-127: self._loop = loop; self._thread = thread
StartSet(t) ==
    /\ pc[t] = "start_set"
    /\ loopSet' = TRUE
    /\ threadSet' = TRUE
    /\ pc' = [pc EXCEPT ![t] = "idle"]
    /\ loc' = [loc EXCEPT ![t] = NoLoc]
    /\ UNCHANGED <<loopState, stopping, ntodo, ready, wpc, wh, g, tasks, mapVars, nh,
                   countVars, hnd, futVars, taskVars, cbq, mainq, ran, returned, creq, early,
                   raised, rfres, par, starts>>

\* thread "a" schedules and calls _start, thread "b" calls stop()
StartNext ==
    \/ WorkerStart \/ Spawn \/ Step \/ TCancel \/ Publish \/ PublishEnd
    \/ GSpawn \/ GStepFirst \/ GDone \/ GStepLast \/ GPublish \/ StopItem \/ LoopExit
    \/ RunCallback(Worker)
    \/ \E h \in Handles : ExternalWake(h)
    \/ ncalls < MaxTaskCalls /\ Call("a", "run_background", NoKey, "RUN_INDEPENDENT", FALSE, "returns")
    \/ Ret("a") \/ Start("a") \/ StartSet("a")
    \/ Stop("b") \/ StCheck("b") \/ StWait("b") \/ StJoin("b") \/ StClose("b")
    \/ Start("b") \/ StartSet("b")

SpecStart == Init /\ [][StartNext]_vars

\* C21: a call of _start while _loop is set raises and changes nothing: no loop
\* and no worker thread is created, _loop and _thread stay as they are
C21_StartOnSetLoopFails ==
    [][starts'.calls /= starts.calls /\ loopSet =>
          /\ starts'.raised = starts.raised + 1
          /\ starts'.made = starts.made
          /\ UNCHANGED <<loopSet, threadSet, loopState, wpc, ready, stopping>>]_vars

\* _start was called on a runner whose loop is set and running, and raised
C21_Witness ==
    /\ starts.raised > 0 /\ starts.made = 1
    /\ loopSet /\ threadSet /\ loopState = "running"

\* thread t enters run_background without a key or with RUN_INDEPENDENT
UnkeyedCall(t) ==
    /\ pc[t] = "idle" /\ loc'[t].op = "call"
    /\ loc'[t].key = NoKey \/ loc'[t].strat = "RUN_INDEPENDENT"

\* C22: run_background without a key, or with RUN_INDEPENDENT under any key, is
\* _schedule and nothing more: the handle is the one _schedule makes, the maps,
\* the buckets and the locks stay as they are, the call does not wait for a
\* lock, the new task waits for no other, and no handle is cancelled
C22_UnkeyedIsSchedule ==
    [][\A t \in Callers : UnkeyedCall(t) =>
          /\ nh' = nh + 1 /\ loc'[t].h = nh'
          /\ hnd'[nh'].kind = ScheduleKind /\ hnd'[nh'].parent = 0
          /\ fstate'[nh'] = ScheduleState
          /\ \A h \in 1..nh : fstate'[h] = fstate[h]
          /\ pc'[t] \notin {"rb_lock", "rb_addcb", "iter"}
          /\ UNCHANGED <<key_tasks, locks, bucket, lockHolder, nb, creq, tcancel>>]_vars

\* a RUN_INDEPENDENT task was scheduled under the key "j" while the bucket of
\* "j" held a task that had not ended
C22_Witness ==
    \E h \in 1..nh :
        /\ hnd[h].key = "j" /\ hnd[h].strat = "RUN_INDEPENDENT" /\ Scheduled(h)
        /\ key_tasks["j"] /= 0
        /\ \E i \in 1..Len(bucket[key_tasks["j"]]) :
              /\ bucket[key_tasks["j"]][i] < h
              /\ ~Done(bucket[key_tasks["j"]][i])
        /\ \A b \in Buckets : h \notin Range(bucket[b])

-----------------------------------------------------------------------------
(* The per-key locks *)

\* thread t is about to run cleanup(h), which begins with `with _lock` (line 181)
WantsLock(t, h) == \E i \in 1..Len(cbq[t]) : cbq[t][i] = Item("cleanup", h)

\* C23: no thread asks for a per-key lock it holds: a thread that is to run the
\* completion hook of a handle does not hold that handle's lock
C23_NoSelfDeadlock ==
    \A t \in Threads, h \in 1..nh : WantsLock(t, h) => lockHolder[hnd[h].l] /= t

\* C24: when the bucket registered for a key is taken out of _key_tasks, that
\* bucket is empty: a registered bucket that holds a handle that has not ended
\* is never removed
C24_RemovedBucketIsEmpty ==
    [][\A K \in Keys : key_tasks[K] /= 0 /\ key_tasks'[K] = 0 =>
            /\ bucket'[key_tasks[K]] = <<>>
            /\ \A h \in Range(bucket'[key_tasks[K]]) :
                  fstate'[h] \in {"CANCELLED", "FINISHED"}]_vars

-----------------------------------------------------------------------------
(* _schedule with its two lines apart: the check of line 130, then
   run_coroutine_threadsafe(coro, self._loop) of line 136.  Call takes the two
   as one step. *)

\* line 130 (and lines 131-135 when the loop is not running)
SchedCheck(t, co) ==
    IF IsRunning
    THEN /\ pc[t] = "idle" /\ ncalls < MaxCalls
         /\ ncalls' = ncalls + 1
         /\ pc' = [pc EXCEPT ![t] = "sch_handoff"]
         /\ loc' = [loc EXCEPT ![t] = [NoLoc EXCEPT !.op = "call", !.api = "run_background",
                                                      !.co = co]]
         /\ UNCHANGED <<loopVars, tasks, mapVars, nh, ncancels, stopCalled, hnd, futVars,
                        taskVars, cbq, mainq, ran, returned, creq, early, raised, rfres, par,
                        starts>>
    ELSE Call(t, "run_background", NoKey, "RUN_INDEPENDENT", FALSE, co)

\* line 136: self._loop is read again; None has no call_soon_threadsafe
\* (AttributeError), a closed loop raises RuntimeError in call_soon_threadsafe,
\* a loop that has stopped takes the callback and never runs it
SchedHandoff(t) ==
    /\ pc[t] = "sch_handoff"
    /\ IF ~loopSet \/ loopState = "closed"
       THEN /\ raised' = raised \cup {t}
            /\ pc' = [pc EXCEPT ![t] = "idle"]
            /\ loc' = [loc EXCEPT ![t] = NoLoc]
            /\ UNCHANGED <<nh, hnd, fstate, ready>>
       ELSE LET h == nh + 1
            IN /\ nh' = h
               /\ hnd' = [hnd EXCEPT ![h] = [NoHnd EXCEPT !.api = "run_background",
                              !.kind = "sched", !.co = loc[t].co]]
               /\ fstate' = [fstate EXCEPT ![h] = "PENDING"]
               /\ ready' = Append(ready, Item("spawn", h))
               /\ pc' = [pc EXCEPT ![t] = "ret"]
               /\ loc' = [loc EXCEPT ![t].h = h]
               /\ raised' = raised
    /\ UNCHANGED <<loopSet, threadSet, loopState, stopping, ntodo, wpc, wh, g, tasks, mapVars,
                   countVars, fres, fcbs, taskVars, cbq, mainq, ran, returned, creq, early,
                   rfres, par, starts>>

\* thread "a" schedules without a key, thread "b" calls stop()
HandoffNext ==
    \/ WorkerStart \/ Spawn \/ Step \/ TCancel \/ Publish \/ PublishEnd
    \/ GSpawn \/ GStepFirst \/ GDone \/ GStepLast \/ GPublish \/ StopItem \/ LoopExit
    \/ RunCallback(Worker)
    \/ \E h \in Handles : ExternalWake(h)
    \/ ncalls < MaxTaskCalls /\ \E co \in Coros : SchedCheck("a", co)
    \/ SchedHandoff("a") \/ Ret("a")
    \/ Stop("b") \/ StCheck("b") \/ StWait("b") \/ StJoin("b") \/ StClose("b")

SpecHandoff == Init /\ [][HandoffNext]_vars

\* C25: a scheduling call never raises: the caller always receives a handle
C25_ScheduleNeverRaises == "a" \notin raised

-----------------------------------------------------------------------------
(* Buckets, completion hooks and the registrations in _tasks *)

\* the run_background call that made h is past line 189, and cleanup(h) is
\* neither waiting on h nor waiting to be run by a thread: it has run
CleanupRan(h) ==
    /\ hnd[h].b /= 0
    /\ \A t \in Callers : loc[t].h = h => pc[t] /= "rb_addcb"
    /\ Item("cleanup", h) \notin Range(fcbs[h])
    /\ \A t \in Threads : Item("cleanup", h) \notin Range(cbq[t])

\* C26: a handle in a bucket is one whose cleanup has not run; once _handle has
\* run for a handle its registration is gone from _tasks; _tasks holds a handle
\* once, and the cancel callback of a handle is handed over at most once
C26_BucketsAndRegistrations ==
    /\ \A b \in Buckets, h \in 1..nh : h \in Range(bucket[b]) => ~CleanupRan(h)
    /\ \A h \in 1..nh : Handled(h) => h \notin Range(tasks)
    /\ \A i, j \in 1..Len(tasks) : tasks[i] = tasks[j] => i = j
    /\ \A h \in 1..nh : Count("cancel", h) <= 1

\* the cleanup and the _handle of a handle of run_task with a cancel callback
\* have run: it is in no bucket and not in _tasks, and its cancel callback was
\* handed over once
C26_Witness ==
    \E h \in 1..nh :
        /\ RunTask(h) /\ hnd[h].cb /\ CleanupRan(h) /\ Handled(h)
        /\ \A b \in Buckets : h \notin Range(bucket[b])
        /\ h \notin Range(tasks)
        /\ Count("cancel", h) = 1

\* C27: a handle that run_background appends under key K goes into the bucket
\* registered as _key_tasks[K] at that moment, under the lock registered as
\* _locks[K]
C27_AppendsToRegisteredBucket ==
    [][\A b \in Buckets, h \in Handles :
          h \in Range(bucket'[b]) /\ h \notin Range(bucket[b]) =>
              /\ key_tasks[hnd'[h].key] = b
              /\ locks[hnd'[h].key] = hnd'[h].l]_vars

-----------------------------------------------------------------------------
(* The whole program *)

\* everything, from every caller thread and the main thread
Next ==
    \/ WorkerNext
    \/ GatherStep \/ KSet \/ KDone
    \/ StopNext
    \/ CallerNext
    \/ MainDispatch
    \/ \E t \in Callers, key \in Keys \cup {NoKey}, strat \in Strategies, co \in Coros :
            \/ Call(t, "run_background", key, strat, FALSE, co)
            \/ \E cb \in BOOLEAN : Call(t, "run_task", key, strat, cb, co)
    \/ \E t \in Callers, co \in Coros :
            Call(t, "run_foreground", NoKey, "RUN_INDEPENDENT", FALSE, co)
    \/ \E t \in Callers, key \in Keys \cup {NoKey}, strat \in Strategies, cos \in ParCoros :
            RpStart(t, key, strat, cos)
    \/ \E t \in Callers : RpItem(t) \/ RpRet(t) \/ RpGather(t)
    \/ \E t \in Callers : Start(t) \/ StartSet(t)
    \/ \E t \in Callers, co \in Coros : SchedCheck(t, co)
    \/ \E t \in Callers : SchedHandoff(t)

Spec == Init /\ [][Next]_vars

====
